---- MODULE Spec2Model ----
(***************************************************************************)
(* State-machine model of src/src/upload_to_gaio_inputs.py: main() and the *)
(* helpers it calls (run_cmd, ensure_remote_dir, remote_file_exists,       *)
(* scp_upload, iter_files, write_jsonl).  One action per statement group   *)
(* of main(); the local tree, the sent/ archive, the remote inputs folder  *)
(* and the clock are the environment the run acts on.                      *)
(***************************************************************************)
EXTENDS Naturals, Integers, Sequences, FiniteSets, TLC

\* ---------------------------------------------------------------- bounds
\* Largest number of regular files in the local tree when a run starts.
MaxFiles == 2
\* The clock (second resolution) takes the values 1..MaxClock.
MaxClock == 2
\* Largest number of environment failures (a failing subprocess, an OSError,
\* a file removed by somebody else) injected into one behaviour.
MaxFaults == 1
\* Number of invocations of main() in a behaviour of SpecRerun.
MaxRuns == 2

\* ------------------------------------------------------- the file system
\* Local paths under local_dir: two base names, at top level and in the
\* subdirectory sub/ (which always exists and is itself a glob candidate).
Paths == {"top/x", "top/y", "sub/x", "sub/y"}
Names == {"x", "y"}
SubDirs == {"sub"}
Patterns == {"*", "x"}

\* Path.name of a local path (f.name, line 174).
NameOf(p) == IF p \in {"top/x", "sub/x"} THEN "x"
             ELSE IF p \in {"top/y", "sub/y"} THEN "y" ELSE p

InSub(p) == p \in {"sub/x", "sub/y"}

\* glob matching of the two patterns of the model: "*" matches every name,
\* a literal pattern only itself.
Matches(pattern, name) == pattern = "*" \/ pattern = name

\* hashlib.sha256 over the file's bytes; a file's content is identified by
\* the path it was created at, distinct contents have distinct digests.
Sha256(content) == CASE content = "top/x" -> "h_tx"
                     [] content = "top/y" -> "h_ty"
                     [] content = "sub/x" -> "h_sx"
                     [] content = "sub/y" -> "h_sy"
                     [] OTHER -> "h_other"

\* All orderings of a finite set (directory traversal order is unspecified).
Orders(S) == {s \in [1..Cardinality(S) -> S] :
                 \A a, b \in 1..Cardinality(S) : s[a] = s[b] => a = b}

VARIABLES
  args,          \* argparse.Namespace: the flags and the pattern
  localDirValid, \* local_dir.exists() and local_dir.is_dir()
  localFiles,    \* regular files under local_dir
  sentDir,       \* sent_dir exists
  sent,          \* files in sent_dir: [name, suffix, content]
  remoteDir,     \* remote_dir exists
  remote,        \* remote_dir: base name -> content or "none"
  now,           \* datetime.now() at second resolution
  pc,            \* position of main()
  files,         \* list(iter_files(...))
  i,             \* index of the file the loop is at
  entry,         \* the record of the current file
  ok, skipped, fail,
  log,           \* the lines of this run's log file
  exitCode,      \* main()'s return value, -1 while none
  raised,        \* where an exception left main(), "" if none
  remoteOps,     \* subprocess.call invocations of this run
  fsOps,         \* local file-system mutations of this run (log file aside)
  faults,        \* environment failures injected into this run
  budget,        \* environment failures the behaviour may still inject
  runNo,         \* which invocation this is
  prev,          \* how the previous invocation ended
  local0,        \* localFiles when this invocation started
  remote0,       \* [dir, held]: the remote when this invocation started
  sent0          \* [dir, held]: the archive when this invocation started

envVars == <<localFiles, sentDir, sent, remoteDir, remote, now>>
runVars == <<args, localDirValid, pc, files, i, entry, ok, skipped, fail, log,
             exitCode, raised>>
obsVars == <<remoteOps, fsOps, faults, budget>>
histVars == <<runNo, prev, local0, remote0, sent0>>
vars == <<envVars, runVars, obsVars, histVars>>

\* ------------------------------------------------------ helpers of main()
\* Variant of run_cmd that forgets the dry_run test of line 39.
RunCmdAlways(dry_run) == TRUE

\* run_cmd: the command is handed to subprocess.call unless dry_run.
RunCmdExecutes(dry_run) == ~dry_run

\* Variant of remote_file_exists that always answers False.
RemoteFileExistsNever(dry_run, code) == FALSE

\* remote_file_exists: under dry_run no command is run and the answer is
\* False; otherwise the answer is "exit status = 0".
RemoteFileExists(dry_run, code) == IF dry_run THEN FALSE ELSE code = 0

\* Variant of lines 58 and 82 that ignores the exit status.
RaisesNever(code) == FALSE

\* ensure_remote_dir / scp_upload: a non-zero exit status raises.
Raises(code) == code # 0

\* Variant of line 190 with the test of overwrite inverted.
ShouldSkipInverted(overwrite, exists) == overwrite /\ exists

\* The condition of line 190.
ShouldSkip(overwrite, exists) == (~overwrite) /\ exists

\* Variant of lines 199-214 that tests keep_local before delete_after.
PostActionKeepFirst(delete_after, keep_local) ==
  IF keep_local THEN "keep"
  ELSE IF delete_after THEN "delete"
  ELSE "archive"

\* The branch of lines 199-214 taken after a transfer that did not raise.
PostAction(delete_after, keep_local) ==
  IF delete_after THEN "delete"
  ELSE IF ~keep_local THEN "archive"
  ELSE "keep"

\* Line 205 runs before the dry_run test of line 207: the archive branch
\* creates sent_dir whatever dry_run is.
MkdirSentRuns(dry_run) == TRUE

\* Lines 206-213: the archive target of a file named name.
Target(name) ==
  IF \E e \in sent : e.name = name /\ e.suffix = 0
  THEN [name |-> name, suffix |-> now]
  ELSE [name |-> name, suffix |-> 0]

\* shutil.move(src, target): os.rename replaces a file already at target.
MoveInto(archive, target, content) ==
  {e \in archive : ~(e.name = target.name /\ e.suffix = target.suffix)}
    \cup {[name |-> target.name, suffix |-> target.suffix, content |-> content]}

\* iter_files: glob (rglob when recursive) yields files and directories
\* whose name matches; only is_file() entries are kept.
Globbed(pattern, recursive) ==
  {p \in Paths \cup SubDirs :
      /\ Matches(pattern, NameOf(p))
      /\ (recursive \/ ~InSub(p))
      /\ (p \in Paths => p \in localFiles)}

\* Variant of iter_files without the is_file() filter.
IsFileAlways(p) == TRUE

IsFile(p) == p \in localFiles

IterFiles(pattern, recursive) == {p \in Globbed(pattern, recursive) : IsFile(p)}

\* Lines 230 and 254.
SummaryStatus(nfail) == IF nfail = 0 THEN "ok" ELSE "partial_fail"

\* Variant of line 254 that always reports success.
ExitCodeZero(nfail) == 0

ExitCode(nfail) == IF nfail = 0 THEN 0 ELSE 1

\* The entry dict of lines 176-185, and the two records of the log.
NewEntry(f) ==
  [event |-> "file", local_path |-> f, remote_path |-> NameOf(f),
   sha256 |-> "None", status |-> "None", error |-> "None"]

NoEntry ==
  [event |-> "none", local_path |-> "None", remote_path |-> "None",
   sha256 |-> "None", status |-> "None", error |-> "None"]

NoFilesRecord == [event |-> "run_end", status |-> "no_files"]

SummaryRecord ==
  [event |-> "run_end", status |-> SummaryStatus(fail),
   count_total |-> Len(files), count_uploaded |-> ok,
   count_skipped |-> skipped, count_failed |-> fail]

\* An environment failure may be injected while the budget lasts.
CanFault == budget > 0

Fault(kind) ==
  /\ faults' = faults \cup {[kind |-> kind, i |-> i]}
  /\ budget' = budget - 1

NoFault == UNCHANGED <<faults, budget>>

\* Variant of the except clause without line 221.
ExceptNoMessage(msg) ==
  /\ entry' = [entry EXCEPT !.status = "failed"]
  /\ fail' = fail + 1
  /\ pc' = "log"

\* The except clause of lines 219-222.
Except(msg) ==
  /\ entry' = [entry EXCEPT !.status = "failed", !.error = msg]
  /\ fail' = fail + 1
  /\ pc' = "log"

\* Lines 216-217.
Uploaded ==
  /\ entry' = [entry EXCEPT !.status = "uploaded"]
  /\ ok' = ok + 1
  /\ pc' = "log"

\* An exception that leaves main().
Raise(where) ==
  /\ pc' = "raised"
  /\ raised' = where

\* The loop goes on to the next file, or to the summary.
NextFile ==
  /\ i' = i + 1
  /\ pc' = IF i < Len(files) THEN "stat" ELSE "summary"

\* remote_file_exists lines 66-69: the test command runs unless dry_run.
ProbeExecutes(dry_run) == ~dry_run

\* Exit status of `test -f` and of scp when nothing fails on the way.
TestCode(name) == IF remote[name] # "none" THEN 0 ELSE 1

ScpCode(f) == IF f \in localFiles /\ remoteDir THEN 0 ELSE 1

\* ------------------------------------------------------------ initial state
\* The archive before the first run: no sent/ directory, an empty one, or
\* one that already holds a file named x.
SentStates ==
  { [dir |-> FALSE, held |-> {}],
    [dir |-> TRUE, held |-> {}],
    [dir |-> TRUE, held |-> {[name |-> "x", suffix |-> 0, content |-> "old"]}] }

\* The remote before the first run: no inputs/ folder, an empty one, or
\* one that already holds a file named x.
RemoteStates ==
  { [dir |-> FALSE, held |-> [n \in Names |-> "none"]],
    [dir |-> TRUE, held |-> [n \in Names |-> "none"]],
    [dir |-> TRUE, held |-> [n \in Names |-> IF n = "x" THEN "old" ELSE "none"]] }

ArgsSet ==
  [recursive : BOOLEAN, overwrite : BOOLEAN, keep_local : BOOLEAN,
   delete_after : BOOLEAN, dry_run : BOOLEAN, pattern : Patterns]

NoPrev == [ended |-> "none", exitCode |-> -1, found |-> {},
           dry_run |-> FALSE, keep_local |-> FALSE, delete_after |-> FALSE,
           local0 |-> {}]

\* The state of main() at its first statement.
RunStart ==
  /\ pc = "start"
  /\ files = <<>>
  /\ i = 0
  /\ entry = NoEntry
  /\ ok = 0 /\ skipped = 0 /\ fail = 0
  /\ log = <<>>
  /\ exitCode = -1
  /\ raised = ""
  /\ remoteOps = {}
  /\ fsOps = {}
  /\ faults = {}

Init ==
  /\ args \in ArgsSet
  /\ localDirValid \in BOOLEAN
  /\ localFiles \in {S \in SUBSET Paths : Cardinality(S) <= MaxFiles}
  /\ (~localDirValid) => localFiles = {}
  /\ \E s \in SentStates : sentDir = s.dir /\ sent = s.held
  /\ \E r \in RemoteStates : remoteDir = r.dir /\ remote = r.held
  /\ now = 1
  /\ RunStart
  /\ budget = MaxFaults
  /\ runNo = 1
  /\ prev = NoPrev
  /\ local0 = localFiles
  /\ remote0 = [dir |-> remoteDir, held |-> remote]
  /\ sent0 = [dir |-> sentDir, held |-> sent]

\* ------------------------------------------------------------------ main()
\* Lines 149-153.
CheckLocalDir ==
  /\ pc = "start"
  /\ IF ~localDirValid
       THEN pc' = "done" /\ exitCode' = 2
       ELSE pc' = "ensure" /\ UNCHANGED exitCode
  /\ UNCHANGED <<envVars, obsVars, histVars, args, localDirValid, files, i,
                 entry, ok, skipped, fail, log, raised>>

\* Line 154: ensure_remote_dir.
EnsureRemoteDir ==
  /\ pc = "ensure"
  /\ \E code \in {0, 255} :
       /\ code # 0 => (RunCmdExecutes(args.dry_run) /\ CanFault)
       /\ remoteOps' = IF RunCmdExecutes(args.dry_run)
                         THEN remoteOps \cup {[op |-> "mkdir", i |-> 0]}
                         ELSE remoteOps
       /\ IF code # 0 THEN Fault("ensure") ELSE NoFault
       /\ remoteDir' = (remoteDir \/ (RunCmdExecutes(args.dry_run) /\ code = 0))
       /\ IF Raises(code) THEN Raise("ensure")
                          ELSE pc' = "enum" /\ UNCHANGED raised
  /\ UNCHANGED <<localFiles, sentDir, sent, remote, now, fsOps, histVars,
                 args, localDirValid, files, i, entry, ok, skipped, fail, log,
                 exitCode>>

\* Line 156: files = list(iter_files(...)), in some traversal order.
Enumerate ==
  /\ pc = "enum"
  /\ \E order \in Orders(IterFiles(args.pattern, args.recursive)) :
       /\ files' = order
       /\ IF Len(order) = 0 THEN pc' = "nofiles" /\ i' = 0
                            ELSE pc' = "stat" /\ i' = 1
  /\ UNCHANGED <<envVars, obsVars, histVars, args, localDirValid, entry, ok,
                 skipped, fail, log, exitCode, raised>>

\* Lines 157-166: the no_files record, then return 0.
NoFiles ==
  /\ pc = "nofiles"
  /\ \/ /\ log' = Append(log, NoFilesRecord)
        /\ exitCode' = 0
        /\ pc' = "done"
        /\ UNCHANGED <<faults, budget, raised>>
     \/ /\ CanFault
        /\ Fault("write_nofiles")
        /\ Raise("nofiles")
        /\ UNCHANGED <<log, exitCode>>
  /\ UNCHANGED <<envVars, remoteOps, fsOps, histVars, args, localDirValid,
                 files, i, entry, ok, skipped, fail>>

\* Lines 174-185: the entry dict; f.stat() is outside the try block.
Stat ==
  /\ pc = "stat"
  /\ IF files[i] \in localFiles
       THEN entry' = NewEntry(files[i]) /\ pc' = "digest" /\ UNCHANGED raised
       ELSE Raise("stat") /\ UNCHANGED entry
  /\ UNCHANGED <<envVars, obsVars, histVars, args, localDirValid, files, i,
                 ok, skipped, fail, log, exitCode>>

\* Line 188: sha256_file(f).
Digest ==
  /\ pc = "digest"
  /\ \/ /\ files[i] \in localFiles
        /\ entry' = [entry EXCEPT !.sha256 = Sha256(files[i])]
        /\ pc' = "probe"
        /\ UNCHANGED <<fail, faults, budget>>
     \/ /\ files[i] \notin localFiles
        /\ Except("ENOENT")
        /\ NoFault
     \/ /\ files[i] \in localFiles
        /\ CanFault
        /\ Fault("digest")
        /\ Except("EIO")
  /\ UNCHANGED <<envVars, remoteOps, fsOps, histVars, args, localDirValid,
                 files, i, ok, skipped, log, exitCode, raised>>

\* Lines 190-192: the existence probe and the decision to skip.
Probe ==
  /\ pc = "probe"
  /\ LET runs == (~args.overwrite) /\ ProbeExecutes(args.dry_run) IN
     \E code \in {0, 1, 255} :
       /\ code = 255 => (runs /\ CanFault)
       /\ code # 255 => code = TestCode(entry.remote_path)
       /\ remoteOps' = IF runs THEN remoteOps \cup {[op |-> "test", i |-> i]}
                               ELSE remoteOps
       /\ IF code = 255 THEN Fault("probe") ELSE NoFault
       /\ IF ShouldSkip(args.overwrite, RemoteFileExists(args.dry_run, code))
            THEN /\ entry' = [entry EXCEPT !.status = "skipped_remote_exists"]
                 /\ skipped' = skipped + 1
                 /\ pc' = "logskip"
            ELSE /\ pc' = "scp"
                 /\ UNCHANGED <<entry, skipped>>
  /\ UNCHANGED <<envVars, fsOps, histVars, args, localDirValid, files, i, ok,
                 fail, log, exitCode, raised>>

\* Lines 193-194: the record of a skipped file, inside the try block.
LogSkip ==
  /\ pc = "logskip"
  /\ \/ /\ log' = Append(log, entry)
        /\ NextFile
        /\ UNCHANGED <<entry, fail, faults, budget>>
     \/ /\ CanFault
        /\ Fault("write_skip")
        /\ Except("EIO")
        /\ UNCHANGED <<log, i>>
  /\ UNCHANGED <<envVars, remoteOps, fsOps, histVars, args, localDirValid,
                 files, ok, skipped, exitCode, raised>>

\* Line 196: scp_upload.
Scp ==
  /\ pc = "scp"
  /\ \E code \in {0, 1} :
       /\ IF RunCmdExecutes(args.dry_run)
            THEN code = 0 => ScpCode(files[i]) = 0
            ELSE code = 0
       /\ (code # 0 /\ ScpCode(files[i]) = 0) => CanFault
       /\ remoteOps' = IF RunCmdExecutes(args.dry_run)
                         THEN remoteOps \cup {[op |-> "scp", i |-> i]}
                         ELSE remoteOps
       /\ IF code # 0 /\ ScpCode(files[i]) = 0
            THEN Fault("scp") ELSE NoFault
       /\ remote' = IF RunCmdExecutes(args.dry_run) /\ code = 0
                      THEN [remote EXCEPT ![entry.remote_path] = files[i]]
                      ELSE remote
       /\ IF Raises(code) THEN Except("SCP falhou")
                          ELSE pc' = "post" /\ UNCHANGED <<entry, fail>>
  /\ UNCHANGED <<localFiles, sentDir, sent, remoteDir, now, fsOps, histVars,
                 args, localDirValid, files, i, ok, skipped, log, exitCode,
                 raised>>

\* Lines 199-203: delete_after.
PostDelete ==
  /\ pc = "post"
  /\ PostAction(args.delete_after, args.keep_local) = "delete"
  /\ \/ /\ args.dry_run
        /\ Uploaded
        /\ UNCHANGED <<localFiles, fsOps, faults, budget, fail>>
     \/ /\ ~args.dry_run
        /\ files[i] \in localFiles
        /\ localFiles' = localFiles \ {files[i]}
        /\ fsOps' = fsOps \cup {[op |-> "unlink", i |-> i]}
        /\ Uploaded
        /\ UNCHANGED <<faults, budget, fail>>
     \/ /\ ~args.dry_run
        /\ files[i] \notin localFiles
        /\ Except("ENOENT")
        /\ UNCHANGED <<localFiles, fsOps, faults, budget, ok>>
     \/ /\ ~args.dry_run
        /\ files[i] \in localFiles
        /\ CanFault
        /\ Fault("unlink")
        /\ Except("EPERM")
        /\ UNCHANGED <<localFiles, fsOps, ok>>
  /\ UNCHANGED <<sentDir, sent, remoteDir, remote, now, remoteOps, histVars,
                 args, localDirValid, files, i, skipped, log, exitCode, raised>>

\* Lines 204-214: the move to sent_dir.
PostArchive ==
  /\ pc = "post"
  /\ PostAction(args.delete_after, args.keep_local) = "archive"
  /\ LET made == MkdirSentRuns(args.dry_run) /\ ~sentDir
         ops == IF made THEN fsOps \cup {[op |-> "mkdir_sent", i |-> i]}
                        ELSE fsOps
     IN
     \/ /\ made
        /\ CanFault
        /\ Fault("mkdir_sent")
        /\ Except("EPERM")
        /\ UNCHANGED <<localFiles, sentDir, sent, fsOps, ok>>
     \/ /\ args.dry_run
        /\ sentDir' = (sentDir \/ made)
        /\ fsOps' = ops
        /\ Uploaded
        /\ UNCHANGED <<localFiles, sent, faults, budget, fail>>
     \/ /\ ~args.dry_run
        /\ files[i] \in localFiles
        /\ sentDir' = (sentDir \/ made)
        /\ sent' = MoveInto(sent, Target(NameOf(files[i])), files[i])
        /\ localFiles' = localFiles \ {files[i]}
        /\ fsOps' = ops \cup {[op |-> "move", i |-> i]}
        /\ Uploaded
        /\ UNCHANGED <<faults, budget, fail>>
     \/ /\ ~args.dry_run
        /\ files[i] \notin localFiles
        /\ sentDir' = (sentDir \/ made)
        /\ fsOps' = ops
        /\ Except("ENOENT")
        /\ UNCHANGED <<localFiles, sent, faults, budget, ok>>
     \/ /\ ~args.dry_run
        /\ files[i] \in localFiles
        /\ CanFault
        /\ sentDir' = (sentDir \/ made)
        /\ fsOps' = ops
        /\ Fault("move")
        /\ Except("EPERM")
        /\ UNCHANGED <<localFiles, sent, ok>>
  /\ UNCHANGED <<remoteDir, remote, now, remoteOps, histVars, args,
                 localDirValid, files, i, skipped, log, exitCode, raised>>

\* keep_local without delete_after: neither branch of lines 199-214 runs.
PostKeep ==
  /\ pc = "post"
  /\ PostAction(args.delete_after, args.keep_local) = "keep"
  /\ Uploaded
  /\ UNCHANGED <<envVars, obsVars, histVars, args, localDirValid, files, i,
                 skipped, fail, log, exitCode, raised>>

\* Line 224: the record of an uploaded or failed file, outside the try block.
Log ==
  /\ pc = "log"
  /\ \/ /\ log' = Append(log, entry)
        /\ NextFile
        /\ UNCHANGED <<faults, budget, raised>>
     \/ /\ CanFault
        /\ Fault("write_file")
        /\ Raise("log")
        /\ UNCHANGED <<log, i>>
  /\ UNCHANGED <<envVars, remoteOps, fsOps, histVars, args, localDirValid,
                 files, entry, ok, skipped, fail, exitCode>>

\* Lines 227-254: the summary record and the return value.
Summary ==
  /\ pc = "summary"
  /\ \/ /\ log' = Append(log, SummaryRecord)
        /\ exitCode' = ExitCode(fail)
        /\ pc' = "done"
        /\ UNCHANGED <<faults, budget, raised>>
     \/ /\ CanFault
        /\ Fault("write_summary")
        /\ Raise("summary")
        /\ UNCHANGED <<log, exitCode>>
  /\ UNCHANGED <<envVars, remoteOps, fsOps, histVars, args, localDirValid,
                 files, i, entry, ok, skipped, fail>>

\* ------------------------------------------------------------- environment
\* A second passes.  The run reads the clock only at line 212, so the
\* passing of time is observed only by a file that is about to be archived.
Tick ==
  /\ pc = "post"
  /\ now < MaxClock
  /\ now' = now + 1
  /\ UNCHANGED <<localFiles, sentDir, sent, remoteDir, remote, runVars,
                 obsVars, histVars>>

\* Somebody else removes the file the loop is at (a removal any time after
\* the enumeration is first observed when the loop reaches the file).
Vanish ==
  /\ pc \in {"stat", "digest", "probe", "scp", "post"}
  /\ CanFault
  /\ files[i] \in localFiles
  /\ localFiles' = localFiles \ {files[i]}
  /\ Fault("vanish")
  /\ UNCHANGED <<sentDir, sent, remoteDir, remote, now, runVars, remoteOps,
                 fsOps, histVars>>

Next ==
  \/ CheckLocalDir
  \/ EnsureRemoteDir
  \/ Enumerate
  \/ NoFiles
  \/ Stat
  \/ Digest
  \/ Probe
  \/ LogSkip
  \/ Scp
  \/ PostDelete
  \/ PostArchive
  \/ PostKeep
  \/ Log
  \/ Summary
  \/ Tick
  \/ Vanish

Spec == Init /\ [][Next]_vars

\* ------------------------------------------------------------ re-invocation
\* main() is invoked again once the previous invocation has returned or
\* raised: the same command line, without --overwrite, with or without
\* --dry-run.
StartRun ==
  /\ pc \in {"done", "raised"}
  /\ runNo < MaxRuns
  /\ \E dr \in BOOLEAN :
       args' = [args EXCEPT !.overwrite = FALSE, !.dry_run = dr]
  /\ prev' = [ended |-> pc, exitCode |-> exitCode,
              found |-> {files[k] : k \in 1..Len(files)},
              dry_run |-> args.dry_run, keep_local |-> args.keep_local,
              delete_after |-> args.delete_after, local0 |-> local0]
  /\ runNo' = runNo + 1
  /\ pc' = "start"
  /\ files' = <<>>
  /\ i' = 0
  /\ entry' = NoEntry
  /\ ok' = 0 /\ skipped' = 0 /\ fail' = 0
  /\ log' = <<>>
  /\ exitCode' = -1
  /\ raised' = ""
  /\ remoteOps' = {}
  /\ fsOps' = {}
  /\ faults' = {}
  /\ local0' = localFiles
  /\ remote0' = [dir |-> remoteDir, held |-> remote]
  /\ sent0' = [dir |-> sentDir, held |-> sent]
  /\ UNCHANGED <<envVars, localDirValid, budget>>

\* The first of several invocations: a real (not dry) recursive run over a
\* valid local directory, no sent/ directory yet, the remote folder in place
\* and empty.
InitRerun ==
  /\ Init
  /\ localDirValid
  /\ ~args.dry_run
  /\ args.recursive
  /\ args.pattern = "*"
  /\ ~sentDir
  /\ remoteDir /\ \A n \in Names : remote[n] = "none"

NextRerun == Next \/ StartRun

SpecRerun == InitRerun /\ [][NextRerun]_vars

\* ================================================================== claims
\* The file records of this run's log, and how many carry a status.
FileRecords == {k \in 1..Len(log) : log[k].event = "file"}

WithStatus(st) == {k \in FileRecords : log[k].status = st}

\* main() returned after the loop, so the summary of lines 227-245 is the
\* last line of the log.
ReachedSummary == pc = "done" /\ Len(files) >= 1

\* Exactly one transfer of this run returned a non-zero exit status and
\* nothing else failed.
OnlyOneScpFailed == \E k \in 1..Len(files) : faults = {[kind |-> "scp", i |-> k]}

\* C1 -- per-file isolation.  In a run without --dry-run in which exactly
\* one file's scp returns a non-zero exit status and no other step fails,
\* main() does not raise; when it returns, all N files have a record,
\* exactly one record is `failed`, the other N-1 are `uploaded` or
\* `skipped_remote_exists`, the summary is `partial_fail` with
\* count_uploaded + count_skipped + count_failed = N, and the exit code is 1.
C1_PerFileIsolation ==
  (~args.dry_run /\ OnlyOneScpFailed) =>
     /\ pc # "raised"
     /\ pc = "done" =>
          /\ Len(log) = Len(files) + 1
          /\ \A k \in 1..Len(files) :
                log[k].event = "file" /\ log[k].local_path = files[k]
          /\ Cardinality(WithStatus("failed")) = 1
          /\ Cardinality(WithStatus("uploaded") \cup
                         WithStatus("skipped_remote_exists")) = Len(files) - 1
          /\ \A k \in WithStatus("failed") : [kind |-> "scp", i |-> k] \in faults
          /\ log[Len(log)].event = "run_end"
          /\ log[Len(log)].status = "partial_fail"
          /\ log[Len(log)].count_uploaded + log[Len(log)].count_skipped
                + log[Len(log)].count_failed = Len(files)
          /\ log[Len(log)].count_failed = 1
          /\ exitCode = 1

\* A run of two files whose first transfer failed and whose second file was
\* still uploaded.
C1_Witness ==
  /\ pc = "done"
  /\ ~args.dry_run
  /\ Len(files) = 2
  /\ faults = {[kind |-> "scp", i |-> 1]}
  /\ log[1].status = "failed"
  /\ log[2].status = "uploaded"
  /\ exitCode = 1

\* The previous invocation was a real run that returned, kept the local
\* files (--keep-local without --delete-after) and left every file it had
\* discovered on the remote; the local directory has not changed since it
\* started.
FirstRunLeftAllOnRemote ==
  /\ runNo >= 2
  /\ prev.ended = "done"
  /\ ~prev.dry_run
  /\ prev.keep_local /\ ~prev.delete_after
  /\ prev.found # {}
  /\ prev.local0 = local0
  /\ \A f \in prev.found : remote0.held[NameOf(f)] # "none"

\* What C2 promises of the second run once it has returned.
AllSkippedNothingChanged ==
  /\ {o \in remoteOps : o.op = "scp"} = {}
  /\ {files[k] : k \in 1..Len(files)} = prev.found
  /\ WithStatus("skipped_remote_exists") = 1..Len(files)
  /\ ok = 0
  /\ skipped = Len(files)
  /\ log[Len(log)].count_uploaded = 0
  /\ log[Len(log)].count_skipped = log[Len(log)].count_total
  /\ localFiles = local0
  /\ remote = remote0.held
  /\ sent = sent0.held
  /\ fsOps = {}

C3_DryRunLocalUntouched ==
  args.dry_run =>
     /\ fsOps = {}
     /\ sentDir = sent0.dir
     /\ sent = sent0.held

\* C4 -- dry-run never touches the remote.  With --dry-run no remote command
\* (mkdir, test) and no transfer is executed at any point of the run, and the
\* remote is as it was before the run.
C4_DryRunRemoteUntouched ==
  args.dry_run =>
     /\ remoteOps = {}
     /\ remoteDir = remote0.dir
     /\ remote = remote0.held

\* A dry run that went through the ensure, the probe and the transfer of a
\* file the remote already holds, and returned.
C4_Witness ==
  /\ args.dry_run
  /\ ~args.overwrite
  /\ pc = "done"
  /\ Len(files) >= 1
  /\ log[1].status = "uploaded"
  /\ remote[log[1].remote_path] = "old"

\* The local file-system operations the run made for the file at index k.
OpsOf(k) == {o.op : o \in {q \in fsOps : q.i = k}}

\* Number of files this run has moved into the archive.
Moves == Cardinality({o \in fsOps : o.op = "move"})

\* C5 -- archive collision safety.  In a run without --dry-run that archives
\* (no --delete-after, no --keep-local), a move into the sent directory never
\* overwrites or removes a file already there, also for several files of the
\* same base name archived within one second: the archive holds everything
\* it held before plus one distinct file per archived upload.  (Stated here
\* for the runs in which no step fails, which the claim includes.)
C5_ArchiveNeverOverwrites ==
  (~args.dry_run /\ PostAction(args.delete_after, args.keep_local) = "archive"
     /\ faults = {}) =>
     /\ sent0.held \subseteq sent
     /\ Cardinality(sent) = Cardinality(sent0.held) + Moves

\* C6 -- local-state precedence.  After a successful transfer in a run
\* without --dry-run exactly one terminal action is applied to the file,
\* chosen by the flags alone: delete_after -> deleted (also with
\* keep_local); neither flag -> moved to the archive; keep_local alone ->
\* left in place, the archive directory untouched.  No file is both deleted
\* and archived.
C6_LocalStatePrecedence ==
  (pc = "log" /\ entry.status = "uploaded" /\ ~args.dry_run) =>
     LET f == files[i]
         archived == \E e \in sent : e.content = f
     IN
     /\ args.delete_after =>
          /\ OpsOf(i) = {"unlink"}
          /\ f \notin localFiles
          /\ ~archived
          /\ sent = sent0.held /\ sentDir = sent0.dir
     /\ (~args.delete_after /\ ~args.keep_local) =>
          /\ OpsOf(i) \ {"mkdir_sent"} = {"move"}
          /\ f \notin localFiles
          /\ archived
     /\ (~args.delete_after /\ args.keep_local) =>
          /\ fsOps = {}
          /\ [kind |-> "vanish", i |-> i] \notin faults => f \in localFiles
          /\ ~archived
          /\ sent = sent0.held /\ sentDir = sent0.dir
     /\ ~({"unlink", "move"} \subseteq OpsOf(i))

\* With both --delete-after and --keep-local the uploaded file was deleted.
C6_Witness ==
  /\ pc = "log"
  /\ entry.status = "uploaded"
  /\ ~args.dry_run
  /\ args.delete_after /\ args.keep_local
  /\ OpsOf(i) = {"unlink"}
  /\ files[i] \notin localFiles

\* Number of file records of the log with status `failed`.
FailedFiles == Cardinality(WithStatus("failed"))

\* C7 -- exit code and summary status.  A run that reaches the summary of
\* lines 227-254 returns 0 and writes status `ok` iff no file failed, and
\* returns 1 and writes `partial_fail` iff one or more files failed; main()
\* returns 2 exactly when the local source directory is invalid.
C7_ExitCodeAndStatus ==
  /\ ReachedSummary =>
       /\ log[Len(log)].event = "run_end"
       /\ exitCode \in {0, 1}
       /\ (exitCode = 0) <=> (FailedFiles = 0)
       /\ (exitCode = 0) <=> (log[Len(log)].status = "ok")
       /\ (exitCode = 1) <=> (FailedFiles >= 1)
       /\ (exitCode = 1) <=> (log[Len(log)].status = "partial_fail")
       /\ (FailedFiles = 0) <=> (log[Len(log)].count_failed = 0)
  /\ pc = "done" => ((exitCode = 2) <=> ~localDirValid)
  /\ pc # "done" => exitCode = -1

\* A run that returned 1 with a partial_fail summary and a failed record.
C7_Witness ==
  /\ ReachedSummary
  /\ exitCode = 1
  /\ log[Len(log)].status = "partial_fail"
  /\ FailedFiles = 1
  /\ Len(files) = 2

\* No regular file under local_dir matched the pattern when the run started.
NothingToSend ==
  \A p \in local0 :
     ~(Matches(args.pattern, NameOf(p)) /\ (args.recursive \/ ~InSub(p)))

\* C8 -- empty selection.  When the remote directory was ensured and no
\* regular file matches (empty directory, no match for the pattern, or only
\* a directory matching), the run enumerates nothing, issues no existence
\* probe and no transfer, changes no local file, and, its one write
\* succeeding, returns 0 with a log of exactly one record: a run-summary
\* event with status `no_files`.
C8_EmptySelection ==
  (localDirValid /\ NothingToSend) =>
     /\ files = <<>>
     /\ {o \in remoteOps : o.op \in {"test", "scp"}} = {}
     /\ fsOps = {}
     /\ localFiles = local0
     /\ sent = sent0.held /\ sentDir = sent0.dir
     /\ ok = 0 /\ skipped = 0 /\ fail = 0
     /\ pc = "raised" => /\ raised \in {"ensure", "nofiles"}
                         /\ faults # {}
                         /\ log = <<>>
     /\ pc = "done" => /\ exitCode = 0
                       /\ Len(log) = 1
                       /\ log[1].event = "run_end"
                       /\ log[1].status = "no_files"
     /\ pc \notin {"done"} => log = <<>>

\* The pattern matched only the directory sub/: the run returned 0 with the
\* single no_files record.
C8_Witness ==
  /\ localDirValid
  /\ NothingToSend
  /\ Globbed(args.pattern, args.recursive) # {}
  /\ pc = "done"
  /\ exitCode = 0
  /\ log = <<[event |-> "run_end", status |-> "no_files"]>>

\* C9 -- counter invariant.  Between two files of the loop and at the
\* summary, uploaded + skipped + failed equals the number of file records
\* appended so far, which is the number of files processed (each processed
\* file increments exactly one counter by one); in the summary record
\* count_uploaded + count_skipped + count_failed = count_total = the number
\* of discovered files.
C9_CounterInvariant ==
  /\ pc \in {"stat", "summary"} =>
       /\ ok + skipped + fail = Cardinality(FileRecords)
       /\ ok + skipped + fail = i - 1
  /\ ReachedSummary =>
       /\ log[Len(log)].count_uploaded + log[Len(log)].count_skipped
             + log[Len(log)].count_failed = log[Len(log)].count_total
       /\ log[Len(log)].count_total = Len(files)

\* C10 -- no per-file error aborts the run.  An error raised by any step of
\* a file's processing (reading its size, the digest, the probe, the
\* transfer, the delete or move, writing its record) is caught and recorded
\* as `failed`, and the loop goes on: main() is never left by an exception
\* raised while it is processing a file.
C10_NoPerFileAbort ==
  pc = "raised" => raised \notin {"stat", "log"}

\* The remote commands and local mutations that belong to file processing.
FileWork ==
  /\ files = <<>>
  /\ {o \in remoteOps : o.op \in {"test", "scp"}} = {}
  /\ fsOps = {}
  /\ localFiles = local0
  /\ remote = remote0.held
  /\ sent = sent0.held /\ sentDir = sent0.dir
  /\ log = <<>>

\* What holds in every state of a run, for C11.
C11_State ==
  /\ (~localDirValid) =>
        /\ pc \in {"start", "done"}
        /\ remoteOps = {}
        /\ FileWork
        /\ pc = "done" => exitCode = 2
  /\ pc \in {"start", "ensure"} => FileWork
  /\ [kind |-> "ensure", i |-> 0] \in faults =>
        /\ ~args.dry_run
        /\ pc = "raised" /\ raised = "ensure"
        /\ exitCode = -1
        /\ remoteOps = {[op |-> "mkdir", i |-> 0]}
        /\ FileWork
  /\ (pc \notin {"start", "ensure"} /\ localDirValid /\ ~args.dry_run) =>
        [op |-> "mkdir", i |-> 0] \in remoteOps

\* C11 -- fatal errors precede all file processing.  With an invalid local
\* directory main() returns 2 with no remote command issued and no log
\* record written; when ensure_remote_dir gets a non-zero exit status (a run
\* without --dry-run) main() raises with nothing enumerated, probed,
\* transferred or changed locally and an empty log.  The steps come in the
\* order: validate the local directory, ensure the remote directory,
\* enumerate.
C11_FatalErrorsFirst ==
  /\ []C11_State
  /\ [][/\ pc' = "ensure" => (pc = "start" /\ localDirValid)
        /\ pc' = "enum" => pc = "ensure"
        /\ pc' \in {"nofiles", "stat"} /\ pc # pc' =>
              pc \in {"enum", "log", "logskip"}
        /\ files' # files => pc = "enum"]_vars

\* ensure_remote_dir raised in a run that had files to send.
C11_Witness ==
  /\ pc = "raised" /\ raised = "ensure"
  /\ localFiles # {}
  /\ IterFiles(args.pattern, args.recursive) # {}
  /\ remoteOps = {[op |-> "mkdir", i |-> 0]}
  /\ log = <<>>

\* The record of the file at index k: its line of the log once written, the
\* entry dict while the loop is still at the file.
Rec(k) == IF k <= Len(log) /\ log[k].event = "file" THEN log[k] ELSE entry

\* The deletes and moves the run attempted for the file at index k: the
\* ones that were carried out, the ones that raised an OSError, and the one
\* that found the file gone (a record with a digest and the error ENOENT).
LocalAttempts(k) ==
  (OpsOf(k) \cap {"unlink", "move"})
    \cup {x.kind : x \in {y \in faults : y.i = k /\ y.kind \in {"unlink", "move"}}}
    \cup (IF Rec(k).sha256 # "None" /\ Rec(k).error = "ENOENT"
            THEN {"enoent"} ELSE {})

\* The scp of the file at index k was invoked and returned exit status 0.
TransferReturnedZero(k) ==
  /\ [op |-> "scp", i |-> k] \in remoteOps
  /\ [kind |-> "scp", i |-> k] \notin faults
  /\ Rec(k).error # "SCP falhou"

\* The record at index k is `failed` because an exception came out of lines
\* 199-214, the local action after the transfer.
FailedInPost(k) ==
  /\ Rec(k).status = "failed"
  /\ Rec(k).sha256 # "None"
  /\ Rec(k).error \in {"ENOENT", "EPERM"}

\* Nothing was attempted on the file at index k and, unless somebody else
\* removed it, it is where it was.
LeftInPlace(k) ==
  /\ LocalAttempts(k) = {}
  /\ [kind |-> "vanish", i |-> k] \notin faults => files[k] \in localFiles

\* A delete or move carried out by this run followed a transfer of the same
\* file that returned 0, in a run without --dry-run.
OnlyAfterTransfer ==
  \A o \in fsOps : o.op \in {"unlink", "move"} =>
     /\ ~args.dry_run
     /\ TransferReturnedZero(o.i)

\* C12 (as amended) -- local transition only after a successful transfer.
\* A file is deleted or moved to the archive only after its own transfer
\* returned 0 in the same run.  For every file recorded
\* skipped_remote_exists, and every file recorded failed because of an error
\* raised before or by its transfer (or by writing its skip record), no
\* delete and no move was attempted and the file is still at its local path.
\* A file recorded failed because its own delete or move raised had its
\* transfer succeed first, and also stays in the local directory.
C12_LocalOnlyAfterTransfer ==
  /\ OnlyAfterTransfer
  /\ \A k \in FileRecords :
       /\ log[k].local_path = files[k]
       /\ (log[k].status = "skipped_remote_exists"
             \/ (log[k].status = "failed" /\ ~FailedInPost(k)))
            => LeftInPlace(k)
       /\ FailedInPost(k) =>
            /\ args.dry_run \/ TransferReturnedZero(k)
            /\ OpsOf(k) \cap {"unlink", "move"} = {}
            /\ [kind |-> "vanish", i |-> k] \notin faults => files[k] \in localFiles

\* The first file's transfer failed and the file stayed; the second file was
\* transferred and then moved to the archive.
C12_Witness ==
  /\ pc = "done"
  /\ Len(files) = 2
  /\ log[1].status = "failed" /\ log[1].error = "SCP falhou"
  /\ files[1] \in localFiles
  /\ log[2].status = "uploaded"
  /\ [op |-> "move", i |-> 2] \in fsOps

\* C12 as stated: for every file recorded skipped_remote_exists or failed,
\* no delete and no move was attempted and the file is at its local path.
C12_AsStated ==
  /\ OnlyAfterTransfer
  /\ \A k \in FileRecords :
       log[k].status \in {"skipped_remote_exists", "failed"} => LeftInPlace(k)

\* The loop has built the entry of the file at index k (lines 176-185).
Begun(k) == k < i \/ (k = i /\ pc # "stat" /\ raised # "stat")

\* The loop is past line 196 for the file at index k.
PastTransfer(k) == k < i \/ (k = i /\ pc \in {"post", "log"})

\* What holds in every state of a run without --dry-run, for C13.
C13_State ==
  ~args.dry_run =>
     /\ args.overwrite =>
          /\ {o \in remoteOps : o.op = "test"} = {}
          /\ skipped = 0
          /\ \A k \in 1..Len(files) :
                /\ Begun(k) => Rec(k).status # "skipped_remote_exists"
                /\ (PastTransfer(k) /\ Rec(k).sha256 # "None") =>
                      [op |-> "scp", i |-> k] \in remoteOps
     /\ pc = "logskip" =>
          /\ ~args.overwrite
          /\ entry.status = "skipped_remote_exists"
     /\ \A k \in 1..Len(files) :
          Begun(k) =>
            ((Rec(k).status = "skipped_remote_exists"
                \/ [kind |-> "write_skip", i |-> k] \in faults) =>
               /\ [op |-> "test", i |-> k] \in remoteOps
               /\ [op |-> "scp", i |-> k] \notin remoteOps)

\* What every step of such a run does, for C13: a probe that finds the path
\* on the remote leads to the skip record and to no transfer.
C13_Step ==
  ~args.dry_run =>
     /\ (pc = "probe" /\ pc' # "probe" /\ ~args.overwrite /\ faults' = faults
           /\ remote[entry.remote_path] # "none") =>
          /\ pc' = "logskip"
          /\ entry' = [entry EXCEPT !.status = "skipped_remote_exists"]
          /\ skipped' = skipped + 1
          /\ remoteOps' = remoteOps \cup {[op |-> "test", i |-> i]}
     /\ (pc = "logskip" /\ log' # log) =>
          /\ log' = Append(log, entry)
          /\ pc' \in {"stat", "summary"}
     /\ (pc' = "scp" /\ pc # "scp") =>
          /\ pc = "probe"
          /\ args.overwrite \/ remote[entry.remote_path] = "none"
                \/ faults' # faults

\* C13 -- skip versus overwrite.  In a run without --dry-run: with
\* overwrite=false, a file whose existence probe reports that the remote path
\* exists gets status skipped_remote_exists, its record (when line 193
\* writes it) carries that status, and no transfer is invoked for it; with
\* overwrite=true no existence probe is ever issued, no file is skipped and a
\* transfer is attempted for every file whose digest was computed, whether
\* or not the remote path exists.
C13_SkipVersusOverwrite == []C13_State /\ [][C13_Step]_vars

\* Without --overwrite the remote already held x: the file named x was
\* probed, skipped and not transferred, the other file was transferred.
C13_Witness ==
  /\ ~args.dry_run /\ ~args.overwrite
  /\ pc = "done"
  /\ Len(files) = 2
  /\ \E k \in 1..2 :
       /\ log[k].status = "skipped_remote_exists"
       /\ log[k].remote_path = "x"
       /\ remote0.held["x"] = "old"
       /\ [op |-> "test", i |-> k] \in remoteOps
       /\ [op |-> "scp", i |-> k] \notin remoteOps
       /\ [op |-> "scp", i |-> 3 - k] \in remoteOps

\* C14 -- probe failure is distinct from absence.  When the existence probe
\* of a file fails as a process (ssh exits with 255), no transfer is
\* attempted for that file and its record is `failed` with an error message.
C14_ProbeFailureIsFailure ==
  \A k \in 1..Len(files) :
     [kind |-> "probe", i |-> k] \in faults =>
        /\ [op |-> "scp", i |-> k] \notin remoteOps
        /\ k \in FileRecords =>
              (log[k].status = "failed" /\ log[k].error # "None")

TerminalStatuses == {"uploaded", "skipped_remote_exists", "failed"}

\* A line of the log that is a well-formed record of the file f.
FileRecordOf(r, f) ==
  /\ r.event = "file"
  /\ r.local_path = f
  /\ r.status \in TerminalStatuses
  /\ (r.error # "None") <=> (r.status = "failed")

\* What holds in every state of a run, for C15.
C15_State ==
  /\ Len(log) <= Len(files) + 1
  /\ \A k \in 1..Len(log) :
       \/ k <= Len(files) /\ Len(files) >= 1 /\ FileRecordOf(log[k], files[k])
       \/ k = Len(files) + 1 /\ log[k].event = "run_end" /\ pc = "done"
  /\ (pc = "done" /\ exitCode # 2) =>
       /\ Len(log) = Len(files) + 1
       /\ log[Len(log)].event = "run_end"
       /\ Cardinality({k \in 1..Len(log) : log[k].event = "run_end"}) = 1
       /\ \A k \in 1..Len(files) :
            Cardinality({j \in FileRecords : log[j].local_path = files[k]}) = 1

\* What every step of a run does to the log, for C15: it appends at most one
\* line and leaves the lines already written as they are.
C15_Step ==
  /\ Len(log') \in {Len(log), Len(log) + 1}
  /\ SubSeq(log', 1, Len(log)) = log
  /\ pc = "done" => log' = log

\* C15 -- exactly-once logging.  In a run that reaches the summary every
\* discovered file has exactly one file record, carrying a terminal status
\* (uploaded, skipped_remote_exists or failed, never null) and an error
\* message iff the status is failed; the file records are in discovery
\* order; the run-summary record is written exactly once and is the last
\* line; no step changes or removes a line already written.
C15_ExactlyOnceLogging == []C15_State /\ [][C15_Step]_vars

\* A run of two files that returned with three lines: one failed record with
\* its message, one other record, and the summary.
C15_Witness ==
  /\ pc = "done"
  /\ Len(files) = 2
  /\ Len(log) = 3
  /\ \E k \in 1..2 :
       /\ log[k].status = "failed" /\ log[k].error # "None"
       /\ log[3 - k].status \in {"uploaded", "skipped_remote_exists"}
       /\ log[3 - k].error = "None"
  /\ log[3].event = "run_end"

\* The state, in the terms of the per-file state machine, of the file the
\* loop is at: discovered until its digest is computed (line 188),
\* fingerprinted until line 190 has decided, skipped from line 191,
\* transferring from line 196 until the local action is over, then uploaded
\* (line 216) or failed (line 220).
Stage ==
  CASE pc \in {"stat", "digest"} -> "discovered"
    [] pc = "probe" -> "fingerprinted"
    [] pc = "logskip" -> "skipped_remote_exists"
    [] pc \in {"scp", "post"} -> "transferring"
    [] pc = "log" -> entry.status
    [] OTHER -> "none"

\* The arrows of the state machine, `failed` being reachable from every
\* state that is not terminal (an exception raised anywhere in the per-file
\* sequence is recorded as failed).
Arrows ==
  { <<"discovered", "fingerprinted">>,
    <<"fingerprinted", "skipped_remote_exists">>,
    <<"fingerprinted", "transferring">>,
    <<"transferring", "uploaded">>,
    <<"discovered", "failed">>,
    <<"fingerprinted", "failed">>,
    <<"transferring", "failed">> }

\* C16 -- per-file state machine.  While the loop is at a file, the file
\* moves only along discovered -> fingerprinted -> {skipped | transferring}
\* -> {uploaded | failed}: it reaches uploaded only from transferring and
\* skipped only from fingerprinted, and it never leaves a terminal state
\* (skipped, uploaded, failed) for another state.  The loop goes to the next
\* file in discovery order only when the file it is at is in a terminal
\* state, and by writing that file's record.
C16_PerFileStateMachine ==
  [][/\ (i' = i /\ Stage # "none" /\ Stage' # "none" /\ Stage' # Stage) =>
           <<Stage, Stage'>> \in Arrows
     /\ (i' # i /\ pc # "enum") =>
           /\ i' = i + 1
           /\ Stage \in TerminalStatuses
           /\ entry.status = Stage
           /\ log' = Append(log, entry)]_vars

\* The file f has received the local terminal action the flags configure:
\* it was deleted, or it is in the archive, or (keep) it is where it was.
ReceivedAction(f) ==
  CASE PostAction(args.delete_after, args.keep_local) = "delete" ->
         f \notin localFiles
    [] PostAction(args.delete_after, args.keep_local) = "archive" ->
         f \notin localFiles /\ \E e \in sent : e.content = f
    [] OTHER -> f \in localFiles

\* This invocation is a re-invocation, without --dry-run and with
\* overwrite=false, of a run without --dry-run that returned 1 (some files
\* failed); the discovered files had distinct base names; the one failure of
\* the behaviour happened in the earlier run, so every step of this
\* invocation succeeds.
ResumedAfterFailure ==
  /\ runNo >= 2
  /\ prev.ended = "done" /\ prev.exitCode = 1
  /\ ~prev.dry_run
  /\ ~args.dry_run /\ ~args.overwrite
  /\ \A f, g \in prev.found : NameOf(f) = NameOf(g) => f = g
  /\ faults = {}

\* C17 -- resumable by re-invocation.  After a run without --dry-run that
\* ended with some files failed, a re-invocation with overwrite=false in
\* which every step succeeds (the failures were transient) returns with zero
\* failures, having invoked a transfer only for remote paths that were not
\* present, and leaves every originally discovered file that was still in
\* the local directory present on the remote and with its configured local
\* terminal action (archived, deleted or kept) applied.
C17_ResumableByReinvocation ==
  (ResumedAfterFailure /\ pc = "done") =>
     /\ fail = 0 /\ exitCode = 0
     /\ \A k \in 1..Len(files) :
          [op |-> "scp", i |-> k] \in remoteOps =>
             remote0.held[NameOf(files[k])] = "none"
     /\ \A f \in prev.found \cap local0 :
          /\ remote[NameOf(f)] # "none"
          /\ ReceivedAction(f)

\* C18 -- dry-run shows the full upload path.  With --dry-run, whatever the
\* remote holds and whatever overwrite is, no existence probe is executed,
\* no file is recorded skipped_remote_exists, every file whose digest was
\* computed is recorded uploaded, and count_skipped = 0 in the summary.
C18_DryRunFullUploadPath ==
  args.dry_run =>
     /\ {o \in remoteOps : o.op = "test"} = {}
     /\ skipped = 0
     /\ \A k \in FileRecords :
          /\ log[k].status # "skipped_remote_exists"
          /\ log[k].sha256 # "None" => log[k].status = "uploaded"
     /\ ReachedSummary => log[Len(log)].count_skipped = 0

\* The local action of lines 199-214 was carried out for the file at index k.
ActionCompleted(k) ==
  CASE PostAction(args.delete_after, args.keep_local) = "delete" ->
         "unlink" \in OpsOf(k)
    [] PostAction(args.delete_after, args.keep_local) = "archive" ->
         "move" \in OpsOf(k)
    [] OTHER -> OpsOf(k) = {}

\* The local action of the file at index k raised an OSError.
ActionRaised(k) ==
  \E kind \in {"unlink", "mkdir_sent", "move"} :
     [kind |-> kind, i |-> k] \in faults

\* C19 -- `uploaded` means transferred and locally settled.  In a run
\* without --dry-run a file's record (or its entry, before it is written) has
\* status uploaded only if its transfer returned exit status 0 and its local
\* terminal action (delete, archive move or keep) was carried out without
\* error.  When the transfer succeeds and the delete or move then raises, the
\* file is recorded failed and counted in count_failed, although its content
\* is on the remote and the run has left the file in the local directory
\* (where it is, unless somebody else removed it).
C19_UploadedMeansSettled ==
  ~args.dry_run =>
     \A k \in 1..Len(files) : Begun(k) =>
        /\ Rec(k).status = "uploaded" =>
              /\ TransferReturnedZero(k)
              /\ ActionCompleted(k)
              /\ ~ActionRaised(k)
        /\ ActionRaised(k) =>
              /\ Rec(k).status = "failed" /\ Rec(k).error # "None"
              /\ TransferReturnedZero(k)
              /\ remote[NameOf(files[k])] # "none"
              /\ [kind |-> "vanish", i |-> k] \notin faults =>
                    files[k] \in localFiles
              /\ OpsOf(k) \cap {"unlink", "move"} = {}
              /\ fail >= 1
              /\ pc = "done" => /\ log[Len(log)].count_failed >= 1
                                /\ exitCode = 1

\* A run returned 1: the shutil.move of its only file raised after the
\* transfer; the file is on the remote and still in the local directory.
C19_Witness ==
  /\ ~args.dry_run
  /\ pc = "done"
  /\ Len(files) = 1
  /\ faults = {[kind |-> "move", i |-> 1]}
  /\ log[1].status = "failed"
  /\ remote[NameOf(files[1])] = files[1]
  /\ files[1] \in localFiles
  /\ log[2].count_failed = 1 /\ log[2].count_uploaded = 0

\* A run with overwrite=false and without --dry-run in which no existence
\* probe failed as a process (the probe reports existence correctly).
FaithfulProbes ==
  /\ ~args.overwrite /\ ~args.dry_run
  /\ \A x \in faults : x.kind # "probe"

\* The indices of the files whose transfer to the remote name n returned 0.
TransferredTo(n) ==
  {k \in 1..Len(files) :
      /\ NameOf(files[k]) = n
      /\ Begun(k)
      /\ TransferReturnedZero(k)}

\* What holds in every state of such a run, for C20.
C20_State ==
  FaithfulProbes =>
     /\ \A k \in 1..Len(files) :
          [op |-> "scp", i |-> k] \in remoteOps =>
             /\ [op |-> "test", i |-> k] \in remoteOps
             /\ remote0.held[NameOf(files[k])] = "none"
     /\ \A n \in Names : Cardinality(TransferredTo(n)) <= 1
     /\ \A j, k \in 1..Len(files) :
          (/\ j < k
           /\ NameOf(files[j]) = NameOf(files[k])
           /\ j \in FileRecords /\ log[j].status = "uploaded") =>
             /\ [op |-> "scp", i |-> k] \notin remoteOps
             /\ Begun(k) => LeftInPlace(k)
             /\ (k \in FileRecords /\ log[k].sha256 # "None"
                   /\ [kind |-> "write_skip", i |-> k] \notin faults) =>
                  log[k].status = "skipped_remote_exists"

\* What every step of such a run does, for C20: line 196 is reached only
\* from a probe of the same path that reported absence, and the path is
\* still absent when scp is invoked.
C20_Step ==
  FaithfulProbes' =>
     /\ (pc' = "scp" /\ pc # "scp") =>
          /\ pc = "probe"
          /\ remote[entry.remote_path] = "none"
          /\ [op |-> "test", i |-> i] \in remoteOps'
     /\ (pc = "scp" /\ remoteOps' # remoteOps) =>
          /\ remoteOps' = remoteOps \cup {[op |-> "scp", i |-> i]}
          /\ remote[entry.remote_path] = "none"

\* C20 -- no transfer onto an existing remote file.  With overwrite=false in
\* a run without --dry-run whose probes report existence correctly, a
\* transfer is invoked only right after a probe of the same remote path
\* reported absence, and never to a path that holds a file; each remote
\* path receives at most one successful transfer in a run; when two
\* discovered files share a base name and the first is uploaded, the second
\* is not transferred, gets status skipped_remote_exists and stays in the
\* local directory.
C20_NoTransferOntoExisting == []C20_State /\ [][C20_Step]_vars

\* A recursive run found x at top level and in sub/: the first was uploaded,
\* the second skipped and left where it was.
C20_Witness ==
  /\ FaithfulProbes
  /\ pc = "done"
  /\ Len(files) = 2
  /\ NameOf(files[1]) = NameOf(files[2])
  /\ remote0.held[NameOf(files[1])] = "none"
  /\ log[1].status = "uploaded"
  /\ log[2].status = "skipped_remote_exists"
  /\ files[2] \in localFiles
  /\ remote[NameOf(files[1])] = files[1]

====
